---- MODULE Spec2Model ----
(***************************************************************************)
(* Model of rickroller-chatgpt-app (src/main.py): a fixed one-widget       *)
(* catalog, two lookup dictionaries derived from it, the pydantic input    *)
(* model of the tool, and the five request handlers registered on the MCP  *)
(* server.  Handlers are coroutines without an await, so each one is one   *)
(* atomic step; concurrency is the set of requests in flight, served in    *)
(* any order.                                                              *)
(***************************************************************************)
EXTENDS Integers, Sequences, FiniteSets, TLC

VARIABLES widgets, WIDGETS_BY_ID, WIDGETS_BY_URI, pending, first, last

vars == <<widgets, WIDGETS_BY_ID, WIDGETS_BY_URI, pending, first, last>>

(***************************************************************************)
(* Bounds.                                                                 *)
(***************************************************************************)
\* requests in flight at the same time
MaxPending == 2
\* JSON integers offered as argument values are 0..MaxInt
MaxInt == 2

(***************************************************************************)
(* The widget catalog.                                                     *)
(***************************************************************************)
_RICK_IFRAME ==
    "<div style=\"display:flex;flex-direction:column;gap:12px;\">\n"
    \o "  <h2 style=\"margin:0;font-size:16px;\">Never Gonna Give You Up</h2>\n"
    \o "  <div style=\"position:relative;padding-bottom:56.25%;height:0;overflow:hidden;border-radius:8px;\">\n"
    \o "    <video controls autoplay style=\"position:absolute;top:0;left:0;width:100%;height:100%;\" "
    \o "src=\"https://cdn-useast1.kapwing.com/static/templates/rick-roll-video-meme-template-video-1da252ec.mp4\"></video>\n"
    \o "  </div>\n"
    \o "</div>\n"

RickWidget(identifier, title, template_uri, invoking, invoked, html, response_text) ==
    [identifier |-> identifier, title |-> title, template_uri |-> template_uri,
     invoking |-> invoking, invoked |-> invoked, html |-> html,
     response_text |-> response_text]

InitialWidgets ==
    << RickWidget("rick-roll",
                  "Rick Roll Player",
                  "ui://widget/rick-roll.html",
                  "Loading the Rick Roll...",
                  "Enjoy the Rick Roll!",
                  _RICK_IFRAME,
                  "Rick Roll widget ready") >>

\* {w.identifier: w for w in widgets}; a later descriptor replaces an
\* earlier one stored under the same key
ById(ws) ==
    [k \in {ws[i].identifier : i \in DOMAIN ws} |->
        ws[CHOOSE i \in DOMAIN ws :
              /\ ws[i].identifier = k
              /\ \A j \in DOMAIN ws : ws[j].identifier = k => j <= i]]

\* {w.template_uri: w for w in widgets}
ByUri(ws) ==
    [k \in {ws[i].template_uri : i \in DOMAIN ws} |->
        ws[CHOOSE i \in DOMAIN ws :
              /\ ws[i].template_uri = k
              /\ \A j \in DOMAIN ws : ws[j].template_uri = k => j <= i]]

(***************************************************************************)
(* JSON values of tool arguments.  A value carries its JSON type; the      *)
(* fields its type does not use hold a fixed filler.                       *)
(***************************************************************************)
JBool(b) == [kind |-> "bool", b |-> b, s |-> "", i |-> 0]

JStr(s) == [kind |-> "str", b |-> FALSE, s |-> s, i |-> 0]

JInt(i) == [kind |-> "int", b |-> FALSE, s |-> "", i |-> i]

JNull == [kind |-> "null", b |-> FALSE, s |-> "", i |-> 0]

(***************************************************************************)
(* RickToolInput: autoplay: bool = False, extra="forbid", validated by     *)
(* model_validate without strict, hence pydantic's lax mode for bool.      *)
(***************************************************************************)
\* strings lax mode reads as True / as False
TrueStrings == {"1", "on", "t", "true", "y", "yes"}

FalseStrings == {"0", "off", "f", "false", "n", "no"}

\* does the lax bool validator accept the value
BoolAccepts(v) ==
    \/ v.kind = "bool"
    \/ v.kind = "int" /\ v.i \in {0, 1}
    \/ v.kind = "str" /\ v.s \in TrueStrings \cup FalseStrings

\* the bool the validator produces from an accepted value
BoolOf(v) ==
    CASE v.kind = "bool" -> v.b
      [] v.kind = "int" -> v.i = 1
      [] v.kind = "str" -> v.s \in TrueStrings
      [] OTHER -> FALSE

\* the error type pydantic reports for a rejected autoplay value
BoolErrorType(v) ==
    IF v.kind \in {"str", "int"} THEN "bool_parsing" ELSE "bool_type"

ModelFields == {"autoplay"}

\* variant: extra="ignore", fields outside the model are dropped silently
ValidationErrorsIgnoreExtra(args) ==
    {[type |-> BoolErrorType(args[f]), loc |-> f] :
        f \in {g \in DOMAIN args \cap ModelFields : ~BoolAccepts(args[g])}}

\* exc.errors(): one diagnostic per offending field
ValidationErrors(args) ==
    {[type |-> BoolErrorType(args[f]), loc |-> f] :
        f \in {g \in DOMAIN args \cap ModelFields : ~BoolAccepts(args[g])}}
    \cup
    {[type |-> "extra_forbidden", loc |-> f] : f \in DOMAIN args \ ModelFields}

\* variant: Field(default=True)
ValidatedPayloadDefaultTrue(args) ==
    [autoplay |-> IF "autoplay" \in DOMAIN args THEN BoolOf(args["autoplay"]) ELSE TRUE]

\* RickToolInput.model_validate(args) when it does not raise
ValidatedPayload(args) ==
    [autoplay |-> IF "autoplay" \in DOMAIN args THEN BoolOf(args["autoplay"]) ELSE FALSE]

\* the text of one diagnostic
ErrorText(e) == "{type: " \o e.type \o ", loc: (" \o e.loc \o ",)}"

RECURSIVE ErrorsText(_)
\* the text of a set of diagnostics, declared fields before extra ones
ErrorsText(es) ==
    IF es = {} THEN ""
    ELSE LET e == CHOOSE x \in es :
                      (\E y \in es : y.loc \in ModelFields) => x.loc \in ModelFields
         IN  ErrorText(e) \o ErrorsText(es \ {e})

(***************************************************************************)
(* Requests.  The uri of a read request is a parsed AnyUrl; the handler    *)
(* renders it with str().  Fields a method does not use hold fillers.      *)
(***************************************************************************)
AnyUrl(scheme, host, path) == [scheme |-> scheme, host |-> host, path |-> path]

\* str(req.params.uri)
UrlStr(u) == u.scheme \o "://" \o u.host \o u.path

NoUrl == AnyUrl("", "", "")

\* req.params.arguments: None, or a mapping from field names to JSON values
NoArguments == [isNone |-> TRUE, map |-> [f \in {} |-> JNull]]

Arguments(m) == [isNone |-> FALSE, map |-> m]

Request(method, name, arguments, uri) ==
    [method |-> method, name |-> name, arguments |-> arguments, uri |-> uri]

ListToolsRequest == Request("tools/list", "", NoArguments, NoUrl)

ListResourcesRequest == Request("resources/list", "", NoArguments, NoUrl)

ListResourceTemplatesRequest == Request("resources/templates/list", "", NoArguments, NoUrl)

ReadResourceRequest(uri) == Request("resources/read", "", NoArguments, uri)

CallToolRequest(name, arguments) == Request("tools/call", name, arguments, NoUrl)

NoRequest == Request("none", "", NoArguments, NoUrl)

(***************************************************************************)
(* Handlers, as functions of the request and of the catalog state.         *)
(***************************************************************************)
TOOL_INPUT_SCHEMA ==
    [type |-> "object",
     properties |-> [autoplay |-> [type |-> "boolean", description |-> "Autoplay the video"]],
     additionalProperties |-> FALSE]

\* variant: UI hints only, the annotations kept out of _meta
_tool_meta_hints_only(widget) ==
    ("openai/outputTemplate" :> widget.template_uri)
    @@ ("openai/toolInvocation/invoking" :> widget.invoking)
    @@ ("openai/toolInvocation/invoked" :> widget.invoked)
    @@ ("openai/widgetAccessible" :> TRUE)
    @@ ("openai/resultCanProduceWidget" :> TRUE)

_tool_meta(widget) ==
    ("openai/outputTemplate" :> widget.template_uri)
    @@ ("openai/toolInvocation/invoking" :> widget.invoking)
    @@ ("openai/toolInvocation/invoked" :> widget.invoked)
    @@ ("openai/widgetAccessible" :> TRUE)
    @@ ("openai/resultCanProduceWidget" :> TRUE)
    @@ ("annotations" :> [destructiveHint |-> FALSE,
                          openWorldHint |-> FALSE,
                          readOnlyHint |-> TRUE])

\* variant: the tool named by its title, as resources are
_list_tools_by_title ==
    [kind |-> "tools",
     items |-> [i \in DOMAIN widgets |->
                  [name |-> widgets[i].title,
                   title |-> widgets[i].title,
                   description |-> "Plays the Rick Astley video in a widget",
                   inputSchema |-> TOOL_INPUT_SCHEMA,
                   _meta |-> _tool_meta(widgets[i])]]]

_list_tools ==
    [kind |-> "tools",
     items |-> [i \in DOMAIN widgets |->
                  [name |-> widgets[i].identifier,
                   title |-> widgets[i].title,
                   description |-> "Plays the Rick Astley video in a widget",
                   inputSchema |-> TOOL_INPUT_SCHEMA,
                   _meta |-> _tool_meta(widgets[i])]]]

_list_resources ==
    [kind |-> "resources",
     items |-> [i \in DOMAIN widgets |->
                  [name |-> widgets[i].title,
                   title |-> widgets[i].title,
                   uri |-> widgets[i].template_uri,
                   description |-> "Rick Roll widget markup",
                   mimeType |-> "text/html+skybridge",
                   _meta |-> _tool_meta(widgets[i])]]]

_list_resource_templates ==
    [kind |-> "resourceTemplates",
     items |-> [i \in DOMAIN widgets |->
                  [name |-> widgets[i].title,
                   title |-> widgets[i].title,
                   uriTemplate |-> widgets[i].template_uri,
                   description |-> "Rick Roll widget markup",
                   mimeType |-> "text/html+skybridge",
                   _meta |-> _tool_meta(widgets[i])]]]

\* ReadResourceResult(contents=[], _meta={"error": "Unknown resource"})
UnknownResourceResult ==
    [kind |-> "read",
     contents |-> << >>,
     _meta |-> ("error" :> "Unknown resource")]

\* variant: the body served as plain HTML
ReadResourceResultPlainHtml(widget) ==
    [kind |-> "read",
     contents |-> << [uri |-> widget.template_uri,
                      mimeType |-> "text/html",
                      text |-> widget.html,
                      _meta |-> _tool_meta(widget)] >>]

\* ReadResourceResult(contents=[TextResourceContents(...)])
ReadResourceResult(widget) ==
    [kind |-> "read",
     contents |-> << [uri |-> widget.template_uri,
                      mimeType |-> "text/html+skybridge",
                      text |-> widget.html,
                      _meta |-> _tool_meta(widget)] >>]

\* variant: the lookup ignores the scheme of the requested uri
_handle_read_resource_any_scheme(req) ==
    IF \A k \in DOMAIN WIDGETS_BY_URI : k # UrlStr(AnyUrl("ui", req.uri.host, req.uri.path))
    THEN UnknownResourceResult
    ELSE ReadResourceResult(WIDGETS_BY_URI[UrlStr(AnyUrl("ui", req.uri.host, req.uri.path))])

_handle_read_resource(req) ==
    IF UrlStr(req.uri) \notin DOMAIN WIDGETS_BY_URI
    THEN UnknownResourceResult
    ELSE ReadResourceResult(WIDGETS_BY_URI[UrlStr(req.uri)])

TextContent(text) == [type |-> "text", text |-> text]

\* args = req.params.arguments or {}
ArgumentsOrEmpty(arguments) ==
    IF arguments.isNone THEN [f \in {} |-> JNull] ELSE arguments.map

\* CallToolResult(content=[TextContent("Unknown tool")], isError=True)
UnknownToolResult ==
    [kind |-> "call",
     content |-> << TextContent("Unknown tool") >>,
     isError |-> TRUE]

\* CallToolResult(content=[TextContent(f"Validation error: {exc.errors()}")], isError=True)
ValidationErrorResult(errors) ==
    [kind |-> "call",
     content |-> << TextContent("Validation error: [" \o ErrorsText(errors) \o "]") >>,
     isError |-> TRUE]

\* embedded.model_dump(mode="json")
EmbeddedResource(widget, html) ==
    [type |-> "resource",
     resource |-> [uri |-> widget.template_uri,
                   mimeType |-> "text/html+skybridge",
                   text |-> html,
                   title |-> widget.title]]

\* the meta mapping of a successful call
CallToolMeta(widget, html) ==
    ("openai.com/widget" :> EmbeddedResource(widget, html))
    @@ ("openai/outputTemplate" :> widget.template_uri)
    @@ ("openai/toolInvocation/invoking" :> widget.invoking)
    @@ ("openai/toolInvocation/invoked" :> widget.invoked)
    @@ ("openai/widgetAccessible" :> TRUE)
    @@ ("openai/resultCanProduceWidget" :> TRUE)

\* variant: the markup is rewritten when autoplay is off
CallToolResultAutoplayHtml(widget, payload) ==
    LET html == IF payload.autoplay THEN widget.html ELSE "<video controls></video>"
    IN  [kind |-> "call",
         content |-> << TextContent(widget.response_text) >>,
         structuredContent |-> [autoplay |-> payload.autoplay],
         _meta |-> CallToolMeta(widget, html),
         isError |-> FALSE]

\* CallToolResult(content=[...], structuredContent={...}, _meta=meta)
CallToolResult(widget, payload) ==
    LET html == widget.html
    IN  [kind |-> "call",
         content |-> << TextContent(widget.response_text) >>,
         structuredContent |-> [autoplay |-> payload.autoplay],
         _meta |-> CallToolMeta(widget, html),
         isError |-> FALSE]

\* variant: the arguments are validated before the name is looked up
_call_tool_request_validate_first(req) ==
    LET args == ArgumentsOrEmpty(req.arguments)
    IN  IF ValidationErrors(args) # {}
        THEN ValidationErrorResult(ValidationErrors(args))
        ELSE IF req.name \notin DOMAIN WIDGETS_BY_ID
             THEN UnknownToolResult
             ELSE CallToolResult(WIDGETS_BY_ID[req.name], ValidatedPayload(args))

_call_tool_request(req) ==
    IF req.name \notin DOMAIN WIDGETS_BY_ID
    THEN UnknownToolResult
    ELSE LET widget == WIDGETS_BY_ID[req.name]
             args == ArgumentsOrEmpty(req.arguments)
         IN  IF ValidationErrors(args) # {}
             THEN ValidationErrorResult(ValidationErrors(args))
             ELSE CallToolResult(widget, ValidatedPayload(args))

(***************************************************************************)
(* Inputs offered by clients.                                              *)
(***************************************************************************)
Uris == {AnyUrl("ui", "widget", "/rick-roll.html"),
         AnyUrl("uri", "widget", "/rick-roll.html"),
         AnyUrl("uri", "nope", "")}

\* 1 and the booleans are read as booleans, "yes" is a string lax mode
\* reads as True, "maybe" and the integers above 1 are rejected
AutoplayValues ==
    {JBool(TRUE), JBool(FALSE), JStr("yes"), JStr("maybe")} \cup {JInt(i) : i \in 1..MaxInt}

ArgumentMaps ==
    {[f \in {} |-> JNull]}
    \cup {[f \in {"autoplay"} |-> v] : v \in AutoplayValues}
    \cup {[f \in {"unexpected"} |-> JInt(1)]}
    \cup {[f \in {"autoplay", "unexpected"} |-> IF f = "autoplay" THEN JBool(TRUE) ELSE JInt(1)]}

ArgumentValues == {NoArguments} \cup {Arguments(m) : m \in ArgumentMaps}

\* arguments sent along with a name the catalog does not have
ProbeArguments ==
    {NoArguments,
     Arguments([f \in {} |-> JNull]),
     Arguments([f \in {"autoplay"} |-> JBool(TRUE)]),
     Arguments([f \in {"autoplay"} |-> JStr("maybe")]),
     Arguments([f \in {"unexpected"} |-> JInt(1)])}

Requests ==
    {ListToolsRequest, ListResourcesRequest, ListResourceTemplatesRequest}
    \cup {ReadResourceRequest(u) : u \in Uris}
    \cup {CallToolRequest("rick-roll", a) : a \in ArgumentValues}
    \cup {CallToolRequest("nonexistent-id", a) : a \in ProbeArguments}

(***************************************************************************)
(* The server.  first remembers the first exchange served, last the latest *)
(* exchange served after it.                                               *)
(***************************************************************************)
NoResponse == [kind |-> "none"]

NoExchange == [req |-> NoRequest, resp |-> NoResponse]

Init ==
    /\ widgets = InitialWidgets
    /\ WIDGETS_BY_ID = ById(InitialWidgets)
    /\ WIDGETS_BY_URI = ByUri(InitialWidgets)
    /\ pending = {}
    /\ first = NoExchange
    /\ last = NoExchange

\* a request arrives over the transport and waits for its handler to run
Receive(req) ==
    /\ Cardinality(pending) < MaxPending
    /\ req \notin pending
    /\ pending' = pending \cup {req}
    /\ UNCHANGED <<widgets, WIDGETS_BY_ID, WIDGETS_BY_URI, first, last>>

\* the response leaves and the exchange is remembered
Respond(req, resp) ==
    /\ pending' = pending \ {req}
    /\ first' = IF first.req.method = "none" THEN [req |-> req, resp |-> resp] ELSE first
    /\ last' = IF first.req.method = "none" THEN last ELSE [req |-> req, resp |-> resp]

HandleListTools(req) ==
    /\ req \in pending
    /\ req.method = "tools/list"
    /\ Respond(req, _list_tools)
    /\ UNCHANGED <<widgets, WIDGETS_BY_ID, WIDGETS_BY_URI>>

HandleListResources(req) ==
    /\ req \in pending
    /\ req.method = "resources/list"
    /\ Respond(req, _list_resources)
    /\ UNCHANGED <<widgets, WIDGETS_BY_ID, WIDGETS_BY_URI>>

HandleListResourceTemplates(req) ==
    /\ req \in pending
    /\ req.method = "resources/templates/list"
    /\ Respond(req, _list_resource_templates)
    /\ UNCHANGED <<widgets, WIDGETS_BY_ID, WIDGETS_BY_URI>>

HandleReadResource(req) ==
    /\ req \in pending
    /\ req.method = "resources/read"
    /\ Respond(req, _handle_read_resource(req))
    /\ UNCHANGED <<widgets, WIDGETS_BY_ID, WIDGETS_BY_URI>>

\* variant: the widget is taken out of the lookup with pop() instead of get()
HandleCallToolPop(req) ==
    /\ req \in pending
    /\ req.method = "tools/call"
    /\ Respond(req, _call_tool_request(req))
    /\ WIDGETS_BY_ID' = [k \in DOMAIN WIDGETS_BY_ID \ {req.name} |-> WIDGETS_BY_ID[k]]
    /\ UNCHANGED <<widgets, WIDGETS_BY_URI>>

HandleCallTool(req) ==
    /\ req \in pending
    /\ req.method = "tools/call"
    /\ Respond(req, _call_tool_request(req))
    /\ UNCHANGED <<widgets, WIDGETS_BY_ID, WIDGETS_BY_URI>>

Next ==
    \/ \E req \in Requests : Receive(req)
    \/ \E req \in pending : HandleListTools(req)
    \/ \E req \in pending : HandleListResources(req)
    \/ \E req \in pending : HandleListResourceTemplates(req)
    \/ \E req \in pending : HandleReadResource(req)
    \/ \E req \in pending : HandleCallTool(req)

Spec == Init /\ [][Next]_vars

(***************************************************************************)
(* Vocabulary of the properties.                                           *)
(***************************************************************************)
Identifiers == {widgets[i].identifier : i \in DOMAIN widgets}

TemplateUris == {widgets[i].template_uri : i \in DOMAIN widgets}

\* the catalog descriptor with the given identifier
WidgetNamed(name) == widgets[CHOOSE i \in DOMAIN widgets : widgets[i].identifier = name]

IsCall(e) == e.req.method = "tools/call"

IsRead(e) == e.req.method = "resources/read"

IsKnownCall(e) == IsCall(e) /\ e.req.name \in Identifiers

\* the argument mapping the handler validates
ArgsOf(e) == ArgumentsOrEmpty(e.req.arguments)

IsSuccess(e) == IsCall(e) /\ ~e.resp.isError

\* the UI hints every widget metadata block carries
HasUiHints(meta, widget) ==
    /\ {"openai/outputTemplate", "openai/toolInvocation/invoking",
        "openai/toolInvocation/invoked", "openai/widgetAccessible",
        "openai/resultCanProduceWidget"} \subseteq DOMAIN meta
    /\ meta["openai/outputTemplate"] = widget.template_uri
    /\ meta["openai/toolInvocation/invoking"] = widget.invoking
    /\ meta["openai/toolInvocation/invoked"] = widget.invoked
    /\ meta["openai/widgetAccessible"] = TRUE
    /\ meta["openai/resultCanProduceWidget"] = TRUE

\* the read-only / non-destructive / closed-world triple
HasAnnotations(meta) ==
    /\ "annotations" \in DOMAIN meta
    /\ meta["annotations"] = [destructiveHint |-> FALSE,
                              openWorldHint |-> FALSE,
                              readOnlyHint |-> TRUE]

NoAnnotations(meta) == "annotations" \notin DOMAIN meta

IsList(e) == e.req.method \in {"tools/list", "resources/list", "resources/templates/list"}

(***************************************************************************)
(* C1                                                                      *)
(***************************************************************************)
C1_Case(e) ==
    /\ IsKnownCall(e)
    /\ \/ DOMAIN ArgsOf(e) = {}
       \/ DOMAIN ArgsOf(e) = {"autoplay"} /\ ArgsOf(e)["autoplay"].kind = "bool"

C1_Holds(e) ==
    C1_Case(e) =>
        /\ e.resp.isError = FALSE
        /\ e.resp.content = << TextContent(WidgetNamed(e.req.name).response_text) >>
        /\ "structuredContent" \in DOMAIN e.resp
        /\ e.resp.structuredContent.autoplay =
               (IF DOMAIN ArgsOf(e) = {} THEN FALSE ELSE ArgsOf(e)["autoplay"].b)

\* C1: a call of a catalog identifier whose arguments are absent, empty or
\* exactly {autoplay: b} with b a boolean returns a non-error result whose
\* text is the widget's response text and whose structured autoplay is b,
\* or false when autoplay is omitted.
C1_BooleanOrOmittedSucceeds == C1_Holds(first) /\ C1_Holds(last)

\* an omitted autoplay was answered first, autoplay = true after it
C1_Witness ==
    /\ C1_Case(first) /\ first.req.arguments.isNone
    /\ first.resp.structuredContent.autoplay = FALSE
    /\ C1_Case(last) /\ DOMAIN ArgsOf(last) = {"autoplay"}
    /\ last.resp.structuredContent.autoplay = TRUE

(***************************************************************************)
(* C2                                                                      *)
(***************************************************************************)
C2_Case(e) ==
    /\ IsKnownCall(e)
    /\ "autoplay" \in DOMAIN ArgsOf(e)
    /\ ArgsOf(e)["autoplay"].kind # "bool"

C2_Holds(e) ==
    C2_Case(e) =>
        /\ e.resp.isError = TRUE
        /\ e.resp.content = << TextContent("Validation error: ["
                                           \o ErrorsText(ValidationErrors(ArgsOf(e))) \o "]") >>
        /\ "structuredContent" \notin DOMAIN e.resp

\* C2: a call of a catalog identifier whose autoplay argument is present
\* but not a boolean returns an error result carrying the validator's
\* diagnostics, never a success with a coerced autoplay.
C2_NonBooleanRejected == C2_Holds(first) /\ C2_Holds(last)

(***************************************************************************)
(* C3                                                                      *)
(***************************************************************************)
C3_Case(e) == IsKnownCall(e) /\ DOMAIN ArgsOf(e) \ {"autoplay"} # {}

C3_Holds(e) ==
    C3_Case(e) =>
        /\ e.resp.isError = TRUE
        /\ "structuredContent" \notin DOMAIN e.resp

\* C3: a call of a catalog identifier whose arguments hold a field other
\* than autoplay returns an error result without structured content,
\* whether or not a valid autoplay comes with it.
C3_ExtraFieldRejected == C3_Holds(first) /\ C3_Holds(last)

\* the extra field alone was answered first, together with autoplay = true after it
C3_Witness ==
    /\ C3_Case(first) /\ DOMAIN ArgsOf(first) = {"unexpected"} /\ first.resp.isError
    /\ C3_Case(last) /\ DOMAIN ArgsOf(last) = {"autoplay", "unexpected"}
    /\ ArgsOf(last)["autoplay"] = JBool(TRUE) /\ last.resp.isError

(***************************************************************************)
(* C4                                                                      *)
(***************************************************************************)
C4_Case(e) == IsCall(e) /\ e.req.name \notin Identifiers

C4_Holds(e) ==
    C4_Case(e) =>
        /\ e.resp.isError = TRUE
        /\ e.resp.content = << TextContent("Unknown tool") >>
        /\ DOMAIN e.resp = {"kind", "content", "isError"}

\* C4: a call of a name outside the catalog returns an error result whose
\* only content is the text "Unknown tool", whatever the arguments are,
\* invalid ones included.
C4_UnknownToolBeforeValidation == C4_Holds(first) /\ C4_Holds(last)

\* an unknown name was answered with arguments the validator would reject
C4_Witness ==
    /\ C4_Case(last)
    /\ ValidationErrors(ArgsOf(last)) # {}
    /\ last.resp.content[1].text = "Unknown tool"

(***************************************************************************)
(* C5                                                                      *)
(***************************************************************************)
C5_Served(e) ==
    /\ Len(e.resp.contents) = 1
    /\ e.resp.contents[1].mimeType = "text/html+skybridge"
    /\ e.resp.contents[1].text = _RICK_IFRAME

C5_ReadOf(e, uri) == IsRead(e) /\ UrlStr(e.req.uri) = uri

\* C5 as stated: reading "uri://widget/rick-roll.html" returns one content
\* entry of MIME type text/html+skybridge whose body is the stored HTML.
C5_ReadUriScheme ==
    /\ C5_ReadOf(first, "uri://widget/rick-roll.html") => C5_Served(first)
    /\ C5_ReadOf(last, "uri://widget/rick-roll.html") => C5_Served(last)

\* C5 amended: reading "ui://widget/rick-roll.html", the widget's
\* templateURI, returns one content entry of MIME type text/html+skybridge
\* whose body is the stored HTML.
C5_ReadTemplateUri ==
    /\ C5_ReadOf(first, "ui://widget/rick-roll.html") => C5_Served(first)
    /\ C5_ReadOf(last, "ui://widget/rick-roll.html") => C5_Served(last)

\* the templateURI was read and its one entry returned
C5_Witness ==
    /\ C5_ReadOf(last, "ui://widget/rick-roll.html")
    /\ Len(last.resp.contents) = 1
    /\ last.resp.contents[1].uri = "ui://widget/rick-roll.html"

(***************************************************************************)
(* C6                                                                      *)
(***************************************************************************)
C6_Holds(e) ==
    IsRead(e) =>
        /\ e.resp.kind = "read"
        /\ UrlStr(e.req.uri) \notin TemplateUris =>
               /\ e.resp.contents = << >>
               /\ "_meta" \in DOMAIN e.resp
               /\ e.resp._meta = ("error" :> "Unknown resource")
        /\ UrlStr(e.req.uri) \in TemplateUris =>
               /\ "_meta" \notin DOMAIN e.resp
               /\ e.resp.contents # << >>

\* C6: reading a URI that is no catalog templateURI returns, as a normal
\* response, an empty content list with the metadata {"error": "Unknown
\* resource"}; reading a catalog templateURI never yields that metadata.
C6_UnknownResourceIsData == C6_Holds(first) /\ C6_Holds(last)

\* an unknown URI and the templateURI were both read
C6_Witness ==
    /\ IsRead(first) /\ UrlStr(first.req.uri) = "uri://nope"
    /\ first.resp.contents = << >>
    /\ IsRead(last) /\ UrlStr(last.req.uri) \in TemplateUris
    /\ "_meta" \notin DOMAIN last.resp

(***************************************************************************)
(* C7                                                                      *)
(***************************************************************************)
C7_OneEntry(e) ==
    /\ e.req.method = "tools/list" =>
           /\ Len(e.resp.items) = 1
           /\ Len(widgets) = 1
           /\ e.resp.items[1].name = widgets[1].identifier
           /\ e.resp.items[1].title = widgets[1].title
    /\ e.req.method = "resources/list" =>
           /\ Len(e.resp.items) = 1
           /\ Len(widgets) = 1
           /\ e.resp.items[1].uri = widgets[1].template_uri
           /\ e.resp.items[1].title = widgets[1].title

\* C7: ListTools and ListResources each return exactly one entry, the one
\* of the single catalog descriptor (tool name = identifier, resource URI =
\* templateURI), and a list call repeated after other requests returns the
\* output of the first one.
C7_ListsStable ==
    /\ C7_OneEntry(first)
    /\ C7_OneEntry(last)
    /\ (IsList(first) /\ last.req = first.req) => last.resp = first.resp

\* ListTools was served first and served again later
C7_Witness ==
    /\ first.req = ListToolsRequest
    /\ last.req = ListToolsRequest
    /\ Len(last.resp.items) = 1

(***************************************************************************)
(* C8                                                                      *)
(***************************************************************************)
\* the metadata blocks a response carries for widgets, with their widgets
C8_Blocks(e) ==
    CASE IsList(e) ->
             {<<e.resp.items[i]._meta, widgets[i]>> : i \in DOMAIN e.resp.items}
      [] IsRead(e) ->
             {<<e.resp.contents[i]._meta, WIDGETS_BY_URI[UrlStr(e.req.uri)]>> :
                  i \in DOMAIN e.resp.contents}
      [] IsSuccess(e) -> {<<e.resp._meta, WIDGETS_BY_ID[e.req.name]>>}
      [] OTHER -> {}

C8_Hints(e) == \A b \in C8_Blocks(e) : HasUiHints(b[1], b[2])

C8_ToolListingsOnly(e) ==
    \A b \in C8_Blocks(e) :
        IF e.req.method = "tools/list" THEN HasAnnotations(b[1]) ELSE NoAnnotations(b[1])

C8_AllButCall(e) ==
    \A b \in C8_Blocks(e) :
        IF IsCall(e) THEN NoAnnotations(b[1]) ELSE HasAnnotations(b[1])

\* C8 as stated: every metadata block carries the output-template pointer,
\* both status texts and the two flags set to true; the annotation triple
\* is in the metadata of ListTools entries and in no other response.
C8_AnnotationsOnToolsOnly ==
    /\ C8_Hints(first) /\ C8_ToolListingsOnly(first)
    /\ C8_Hints(last) /\ C8_ToolListingsOnly(last)

\* C8 amended: every metadata block carries the output-template pointer,
\* both status texts and the two flags set to true; the annotation triple
\* is in the metadata of the entries of ListTools, ListResources,
\* ListResourceTemplates and ReadResource, and absent only from the
\* metadata of a CallTool result.
C8_AnnotationsOnAllButCall ==
    /\ C8_Hints(first) /\ C8_AllButCall(first)
    /\ C8_Hints(last) /\ C8_AllButCall(last)

\* a resource listing with its block and a successful call with its block
C8_Witness ==
    /\ first.req = ListResourcesRequest
    /\ C8_Blocks(first) # {}
    /\ IsCall(last) /\ IsSuccess(last)
    /\ C8_Blocks(last) # {}

(***************************************************************************)
(* C9                                                                      *)
(***************************************************************************)
\* C9: whatever requests are in flight and in whatever order they were
\* served, the catalog and both lookup maps have their startup value, the
\* maps hold exactly the catalog's descriptors, and a request served again
\* gets the response it got before.
C9_CatalogImmutable ==
    /\ widgets = InitialWidgets
    /\ WIDGETS_BY_ID = ById(InitialWidgets)
    /\ WIDGETS_BY_URI = ByUri(InitialWidgets)
    /\ DOMAIN WIDGETS_BY_ID = Identifiers
    /\ DOMAIN WIDGETS_BY_URI = TemplateUris
    /\ \A i \in DOMAIN widgets :
           /\ WIDGETS_BY_ID[widgets[i].identifier] = widgets[i]
           /\ WIDGETS_BY_URI[widgets[i].template_uri] = widgets[i]
    /\ last.req = first.req => last.resp = first.resp

\* a call was served twice while two other requests were in flight
C9_Witness ==
    /\ IsKnownCall(first) /\ IsSuccess(first)
    /\ last.req = first.req
    /\ Cardinality(pending) = MaxPending

(***************************************************************************)
(* C10                                                                     *)
(***************************************************************************)
\* the template pointers of the tools a ListTools response lists
C10_Pointers(e) ==
    {e.resp.items[i]._meta["openai/outputTemplate"] : i \in DOMAIN e.resp.items}

C10_Agree(a, b) ==
    /\ (a.req.method = "tools/list" /\ IsRead(b) /\ UrlStr(b.req.uri) \in C10_Pointers(a)) =>
           /\ Len(b.resp.contents) = 1
           /\ "_meta" \notin DOMAIN b.resp
    /\ (a.req.method = "tools/list" /\ b.req.method = "resources/list") =>
           C10_Pointers(a) = {b.resp.items[i].uri : i \in DOMAIN b.resp.items}
    /\ (a.req.method = "tools/list" /\ b.req.method = "resources/templates/list") =>
           C10_Pointers(a) = {b.resp.items[i].uriTemplate : i \in DOMAIN b.resp.items}
    /\ (IsCall(a) /\ IsSuccess(a) /\ IsRead(b)
            /\ UrlStr(b.req.uri) = a.resp._meta["openai/outputTemplate"]) =>
           /\ Len(b.resp.contents) = 1
           /\ a.resp._meta["openai.com/widget"].resource.text = b.resp.contents[1].text
           /\ a.resp._meta["openai.com/widget"].resource.uri = b.resp.contents[1].uri

\* C10: the pointer in the metadata of every listed tool is a URI that
\* ReadResource answers with exactly one entry and that ListResources and
\* ListResourceTemplates list too, and the HTML embedded in a successful
\* call's metadata is the body ReadResource returns, whatever the autoplay.
C10_ListReadCallAgree == C10_Agree(first, last) /\ C10_Agree(last, first)

\* a call with autoplay = false succeeded and its template was read
C10_Witness ==
    /\ IsCall(first) /\ IsSuccess(first)
    /\ first.resp.structuredContent.autoplay = FALSE
    /\ IsRead(last)
    /\ UrlStr(last.req.uri) = first.resp._meta["openai/outputTemplate"]
    /\ Len(last.resp.contents) = 1
====
